---- MODULE Spec2Model ----
(***************************************************************************)
(* The pet simulation and lifecycle engine of the Tamagotchi App component *)
(* (src/unnamed/part_000, "User Flow v2"): the React state (stage, age,    *)
(* pet), the localStorage snapshot, the hatch timeout and the tick         *)
(* interval, and the commands hatch/restart/feed/play/nap/clean.           *)
(*                                                                         *)
(* Units.  The four attributes are JavaScript numbers whose decay rates    *)
(* are hundredths (-0.25, -0.30, -0.18, -0.22 per second).  They are kept  *)
(* here as integers counting hundredths of a point: 70 is 7000, the clamp  *)
(* range [0,100] is [0,10000], a rate of -0.25/s is 25 per second.  Every  *)
(* elapsed time fed to applyDecay is a whole number of seconds (a floor,   *)
(* or TICK_MS / 1000), so the integer arithmetic is exact; floating-point  *)
(* rounding of the products is not modelled.  Times are milliseconds.      *)
(*                                                                         *)
(* Atomicity.  One action is one event of the single-threaded event loop   *)
(* run to quiescence: the handler's setState calls, the render, and the    *)
(* effects that render triggers (persist, hatch timer, tick timer, death   *)
(* check), including the second render the death check's setStage causes.  *)
(*                                                                         *)
(* Commands.  hatch, restart, feed, play, nap and clean are modelled as    *)
(* callable in every stage; their own guards are the only gates.  (The     *)
(* buttons that the JSX renders per stage are presentation.)               *)
(***************************************************************************)
EXTENDS Integers, FiniteSets, Sequences, TLC

VARIABLES
    stage,       \* useState<LifeStage>
    age,         \* useState<number>
    pet,         \* useState<PetState>
    storage,     \* localStorage[STORAGE_KEY]
    now,         \* Date.now()
    mounted,     \* the App component is mounted (the page is open)
    hatchTimer,  \* the hatch setTimeout is pending
    tickTimer,   \* the tick setInterval is active
    cares,       \* care actions applied so far (bounds the run)
    last         \* the event handled last, and what initialGame did on a mount

vars == <<stage, age, pet, storage, now, mounted, hatchTimer, tickTimer, cares, last>>

----------------------------------------------------------------------------
(* Program constants *)

TICK_MS == 5000
MAX_AGE == 24
HATCH_MS == 1200

\* clamp's bounds, in hundredths
MinStat == 0
MaxStat == 10000

\* freshPet's values, in hundredths
FreshHunger == 7000
FreshHappiness == 6000
FreshEnergy == 8000
FreshCleanliness == 9000

\* applyDecay's rates, in hundredths lost per second
HungerDecay == 25
HappinessDecay == 30
EnergyDecay == 18
CleanlinessDecay == 22

\* SavedGame.version
VERSION == 2

(* Bounds of the model *)

\* care actions that take effect in one run
MaxCare == 1
\* the clock reads one of the instants 0..MaxInstant
MaxInstant == 2
\* the clock's first reading
T0 == 1000000

----------------------------------------------------------------------------
(* The clock *)

\* The readings of the clock in a run: T0, a tick interval later, and then
\* hours later (off the whole second by 700 ms).
Offset(i) ==
    CASE i = 0 -> 0
      [] i = 1 -> TICK_MS
      [] OTHER -> (i - 1) * 3600000 + 700

Instants == { T0 + Offset(i) : i \in 0..MaxInstant }

\* The readings of the clock and the timestamps of stored snapshots when a
\* stored value is loaded: equal, under a second, seconds and an hour apart.
LoadInstants == { T0, T0 + 700, T0 + TICK_MS, T0 + 3600000 }

----------------------------------------------------------------------------
(* Pure functions *)

Max2(a, b) == IF a >= b THEN a ELSE b
Min2(a, b) == IF a <= b THEN a ELSE b

clampNoUpper(v) == Max2(MinStat, v)

clamp(v) == Max2(MinStat, Min2(MaxStat, v))

freshPet(t) ==
    [hunger |-> FreshHunger, happiness |-> FreshHappiness,
     energy |-> FreshEnergy, cleanliness |-> FreshCleanliness,
     lastUpdated |-> t]

applyDecayGrow(p, seconds) ==
    [hunger |-> clamp(p.hunger + HungerDecay * seconds),
     happiness |-> clamp(p.happiness + HappinessDecay * seconds),
     energy |-> clamp(p.energy + EnergyDecay * seconds),
     cleanliness |-> clamp(p.cleanliness + CleanlinessDecay * seconds),
     lastUpdated |-> p.lastUpdated]

applyDecay(p, seconds) ==
    [hunger |-> clamp(p.hunger - HungerDecay * seconds),
     happiness |-> clamp(p.happiness - HappinessDecay * seconds),
     energy |-> clamp(p.energy - EnergyDecay * seconds),
     cleanliness |-> clamp(p.cleanliness - CleanlinessDecay * seconds),
     lastUpdated |-> p.lastUpdated]

Attrs(p) == <<p.hunger, p.happiness, p.energy, p.cleanliness>>

----------------------------------------------------------------------------
(* The stored value and its codec.                                         *)
(*                                                                         *)
(* localStorage.getItem returns null (kind "null"), a text JSON.parse      *)
(* rejects (kind "garbage"), or the text of a JSON object (kind "object")  *)
(* that has the keys in `keys`; a key that is absent reads as undefined.   *)
(* The fields of absent keys hold the fillers of NoObject.                 *)

NoPet == [hunger |-> 0, happiness |-> 0, energy |-> 0, cleanliness |-> 0,
          lastUpdated |-> 0]

NoObject == [kind |-> "null", keys |-> {}, version |-> 0, stage |-> "",
             age |-> 0, pet |-> NoPet]

Missing == NoObject

Unparsable == [NoObject EXCEPT !.kind = "garbage"]

\* const payload: SavedGame = { version: 2, stage, age, pet }
Payload(st, a, p) == [version |-> VERSION, stage |-> st, age |-> a, pet |-> p]

JSONstringifyNoStage(payload) ==
    [kind |-> "object", keys |-> {"version", "age", "pet"},
     version |-> payload.version, stage |-> "",
     age |-> payload.age, pet |-> payload.pet]

\* JSON.stringify of a SavedGame: an object with the four keys, every number
\* written in full (a finite double survives the text unchanged)
JSONstringify(payload) ==
    [kind |-> "object", keys |-> {"version", "stage", "age", "pet"},
     version |-> payload.version, stage |-> payload.stage,
     age |-> payload.age, pet |-> payload.pet]

VersionOkAtLeast(raw) == "version" \in raw.keys /\ raw.version >= VERSION

\* saved?.version === 2
VersionOk(raw) == "version" \in raw.keys /\ raw.version = VERSION

ElapsedSecMillis(t, lastUpdated) ==
    t - (IF lastUpdated # 0 THEN lastUpdated ELSE t)

\* Math.floor((now - (saved.pet.lastUpdated || now)) / 1000)
ElapsedSec(t, lastUpdated) ==
    (t - (IF lastUpdated # 0 THEN lastUpdated ELSE t)) \div 1000

LoadDecayAlways(raw, t) ==
    LET default(why) == [stage |-> "egg", age |-> 0, pet |-> freshPet(t),
                         src |-> why, dt |-> 0]
    IN  IF raw.kind = "null" THEN default("null")
        ELSE IF raw.kind = "garbage" THEN default("unparsable")
        ELSE IF ~VersionOk(raw) THEN default("version")
        ELSE IF "pet" \notin raw.keys THEN default("nopet")
        ELSE [stage |-> IF "stage" \in raw.keys THEN raw.stage ELSE "egg",
              age |-> IF "age" \in raw.keys THEN raw.age ELSE 0,
              pet |-> [applyDecay(raw.pet, ElapsedSec(t, raw.pet.lastUpdated))
                       EXCEPT !.lastUpdated = t],
              src |-> "saved",
              dt |-> t - raw.pet.lastUpdated]

\* initialGame: what the useMemo returns for the stored value raw at time t,
\* with the branch taken (src) and now - lastUpdated of a restored snapshot (dt)
Load(raw, t) ==
    LET default(why) == [stage |-> "egg", age |-> 0, pet |-> freshPet(t),
                         src |-> why, dt |-> 0]
    IN  IF raw.kind = "null" THEN default("null")
        ELSE IF raw.kind = "garbage" THEN default("unparsable")
        ELSE IF ~VersionOk(raw) THEN default("version")
        ELSE IF "pet" \notin raw.keys THEN default("nopet")
        ELSE LET st == IF "stage" \in raw.keys THEN raw.stage ELSE "egg"
                 ag == IF "age" \in raw.keys THEN raw.age ELSE 0
                 elapsedSec == ElapsedSec(t, raw.pet.lastUpdated)
             IN  [stage |-> st,
                  age |-> ag,
                  pet |-> IF st = "alive"
                          THEN [applyDecay(raw.pet, elapsedSec) EXCEPT !.lastUpdated = t]
                          ELSE [raw.pet EXCEPT !.lastUpdated = t],
                  src |-> "saved",
                  dt |-> t - raw.pet.lastUpdated]

----------------------------------------------------------------------------
(* Effects *)

PersistEffectAgeZero(st, a, p) == JSONstringify(Payload(st, 0, p))

\* the persist effect: localStorage.setItem(STORAGE_KEY, JSON.stringify(payload))
PersistEffect(st, a, p) == JSONstringify(Payload(st, a, p))

HatchEffectNoCleanup(prev, st, timer) ==
    IF st = prev THEN timer ELSE (timer \/ st = "hatching")

\* the hatch effect, deps [stage]: when the stage changed, the cleanup clears the
\* pending timeout and the effect arms a new one iff the stage is hatching
HatchEffect(prev, st, timer) ==
    IF st = prev THEN timer ELSE (st = "hatching")

TickEffectNoCleanup(prev, st, timer) ==
    IF st = prev THEN timer ELSE (timer \/ st = "alive")

TickEffectNoStart(prev, st, timer) ==
    IF st = prev THEN timer ELSE FALSE

\* the tick effect, deps [stage]: when the stage changed, the cleanup clears the
\* interval and the effect starts a new one iff the stage is alive
TickEffect(prev, st, timer) ==
    IF st = prev THEN timer ELSE (st = "alive")

DeathCheckOff(st, a) == st

DeathCheckLate(st, a) ==
    IF st = "alive" /\ a > MAX_AGE THEN "dead" ELSE st

\* the death check effect, deps [stage, age]: the stage after it
DeathCheck(st, a) ==
    IF st = "alive" /\ a >= MAX_AGE THEN "dead" ELSE st

\* The render of state (st, a, p) after a render of stage prev with timers h
\* and t, and the effects it runs: persist, hatch timer, tick timer, death
\* check; when the death check sets the stage, the render and effects of that.
Commit(prev, h, t, st, a, p) ==
    LET h1 == HatchEffect(prev, st, h)
        t1 == TickEffect(prev, st, t)
        s1 == PersistEffect(st, a, p)
        st2 == DeathCheck(st, a)
    IN  IF st2 = st
        THEN [stage |-> st, storage |-> s1, hatchTimer |-> h1, tickTimer |-> t1]
        ELSE [stage |-> st2, storage |-> PersistEffect(st2, a, p),
              hatchTimer |-> HatchEffect(st, st2, h1),
              tickTimer |-> TickEffect(st, st2, t1)]

\* setStage/setAge/setPet to (st, a, p) in a handler, the hatch timer being h
Render(h, st, a, p) ==
    LET c == Commit(stage, h, tickTimer, st, a, p)
    IN  /\ stage' = c.stage
        /\ age' = a
        /\ pet' = p
        /\ storage' = c.storage
        /\ hatchTimer' = c.hatchTimer
        /\ tickTimer' = c.tickTimer

\* The record of an event: its name; for restart the stage it was called in,
\* for a mount the branch initialGame took (src) and the time since the
\* restored snapshot's lastUpdated (dt).
Ev(name) == [ev |-> name, src |-> "", dt |-> 0]

----------------------------------------------------------------------------
(* State updaters of the care actions *)

feedPetNoMess(p, t) ==
    [p EXCEPT !.hunger = clamp(p.hunger + 1500),
              !.lastUpdated = t]

feedPet(p, t) ==
    [p EXCEPT !.hunger = clamp(p.hunger + 1500),
              !.cleanliness = clamp(p.cleanliness - 500),
              !.lastUpdated = t]

playPet(p, t) ==
    [p EXCEPT !.happiness = clamp(p.happiness + 1800),
              !.energy = clamp(p.energy - 1000),
              !.cleanliness = clamp(p.cleanliness - 600),
              !.hunger = clamp(p.hunger - 600),
              !.lastUpdated = t]

napPet(p, t) ==
    [p EXCEPT !.energy = clamp(p.energy + 2000),
              !.happiness = clamp(p.happiness + 400),
              !.hunger = clamp(p.hunger - 500),
              !.lastUpdated = t]

cleanPet(p, t) ==
    [p EXCEPT !.cleanliness = clamp(p.cleanliness + 2200),
              !.happiness = clamp(p.happiness + 300),
              !.lastUpdated = t]

CareGateNotDead(st) == st # "dead"

\* if (stage !== "alive") return;
CareGate(st) == st = "alive"

HatchGateNotAlive(st) == st # "alive"

\* if (stage !== "egg") return;
HatchGate(st) == st = "egg"

----------------------------------------------------------------------------
(* Initial states *)

\* The page is opened for the first time, at T0, with nothing stored.
Init ==
    LET g == Load(Missing, T0)
        c == Commit("unmounted", FALSE, FALSE, g.stage, g.age, g.pet)
    IN  /\ stage = c.stage
        /\ age = g.age
        /\ pet = g.pet
        /\ storage = c.storage
        /\ now = T0
        /\ mounted = TRUE
        /\ hatchTimer = c.hatchTimer
        /\ tickTimer = c.tickTimer
        /\ cares = 0
        /\ last = [ev |-> "open", src |-> g.src, dt |-> g.dt]

----------------------------------------------------------------------------
(* Actions *)

\* A care command: a no-op unless the stage is alive, else setPet(update).
Care(name, update) ==
    /\ mounted
    /\ last' = Ev(name)
    /\ IF CareGate(stage)
       THEN /\ cares < MaxCare
            /\ cares' = cares + 1
            /\ Render(hatchTimer, stage, age, update)
            /\ UNCHANGED <<now, mounted>>
       ELSE UNCHANGED <<stage, age, pet, storage, now, mounted, hatchTimer,
                        tickTimer, cares>>

Feed == Care("feed", feedPet(pet, now))

Play == Care("play", playPet(pet, now))

Nap == Care("nap", napPet(pet, now))

Clean == Care("clean", cleanPet(pet, now))

Hatch ==
    /\ mounted
    /\ last' = Ev("hatch")
    /\ IF HatchGate(stage)
       THEN /\ Render(hatchTimer, "hatching", 0, freshPet(now))
            /\ UNCHANGED <<now, mounted, cares>>
       ELSE UNCHANGED <<stage, age, pet, storage, now, mounted, hatchTimer,
                        tickTimer, cares>>

RestartKeepsAge ==
    /\ mounted
    /\ last' = [ev |-> "restart", src |-> stage, dt |-> 0]
    /\ Render(hatchTimer, "egg", age, freshPet(now))
    /\ UNCHANGED <<now, mounted, cares>>

RestartKeepsPet ==
    /\ mounted
    /\ last' = [ev |-> "restart", src |-> stage, dt |-> 0]
    /\ Render(hatchTimer, "egg", 0, [pet EXCEPT !.lastUpdated = now])
    /\ UNCHANGED <<now, mounted, cares>>

Restart ==
    /\ mounted
    /\ last' = [ev |-> "restart", src |-> stage, dt |-> 0]
    /\ Render(hatchTimer, "egg", 0, freshPet(now))
    /\ UNCHANGED <<now, mounted, cares>>

\* The hatch timeout fires (once): setStage("alive").
HatchTimerFire ==
    /\ mounted
    /\ hatchTimer
    /\ last' = Ev("hatchTimer")
    /\ Render(FALSE, "alive", age, pet)
    /\ UNCHANGED <<now, mounted, cares>>

\* The tick interval fires: setAge(a => a + 1), setPet(decay one tick).
Tick ==
    /\ mounted
    /\ tickTimer
    /\ last' = Ev("tick")
    /\ Render(hatchTimer, stage, age + 1,
              [applyDecay(pet, TICK_MS \div 1000) EXCEPT !.lastUpdated = now])
    /\ UNCHANGED <<now, mounted, cares>>

\* Time passes.
Advance ==
    /\ \E t \in Instants : t > now /\ now' = t
    /\ last' = Ev("advance")
    /\ UNCHANGED <<stage, age, pet, storage, mounted, hatchTimer, tickTimer, cares>>

\* The page is closed: the component unmounts and both cleanups run.  The
\* state variables keep what the page showed last.
Close ==
    /\ mounted
    /\ mounted' = FALSE
    /\ hatchTimer' = FALSE
    /\ tickTimer' = FALSE
    /\ last' = Ev("close")
    /\ UNCHANGED <<stage, age, pet, storage, now, cares>>

\* The page is opened: initialGame, the first render and its effects.
Open ==
    /\ ~mounted
    /\ LET g == Load(storage, now)
           c == Commit("unmounted", FALSE, FALSE, g.stage, g.age, g.pet)
       IN  /\ stage' = c.stage
           /\ age' = g.age
           /\ pet' = g.pet
           /\ storage' = c.storage
           /\ hatchTimer' = c.hatchTimer
           /\ tickTimer' = c.tickTimer
           /\ last' = [ev |-> "open", src |-> g.src, dt |-> g.dt]
    /\ mounted' = TRUE
    /\ UNCHANGED <<now, cares>>

Next ==
    \/ Feed
    \/ Play
    \/ Nap
    \/ Clean
    \/ Hatch
    \/ Restart
    \/ HatchTimerFire
    \/ Tick
    \/ Advance
    \/ Close
    \/ Open

Spec == Init /\ [][Next]_vars

----------------------------------------------------------------------------
(* A store that rejects writes.                                            *)
(*                                                                         *)
(* localStorage.setItem throws when the quota is exceeded or the store is  *)
(* unavailable.  The persist effect calls it with no try/catch, the        *)
(* component has no error boundary, and an error thrown by an effect that  *)
(* no boundary catches makes React unmount the whole root: the effects     *)
(* declared after the persist effect do not run for that render, every     *)
(* cleanup runs, and the state is gone until the page is opened again.     *)

\* The render of (st, a, p) whose persist effect throws.  The state
\* variables keep what was rendered last; the store keeps its old value.
RenderWriteFails(st, a, p) ==
    /\ stage' = st
    /\ age' = a
    /\ pet' = p
    /\ storage' = storage
    /\ hatchTimer' = FALSE
    /\ tickTimer' = FALSE
    /\ mounted' = FALSE

WriteFailed(name) == [ev |-> name, src |-> "writeFailed", dt |-> 0]

\* A tick whose write fails.
TickWriteFails ==
    /\ mounted
    /\ tickTimer
    /\ last' = WriteFailed("tick")
    /\ RenderWriteFails(stage, age + 1,
            [applyDecay(pet, TICK_MS \div 1000) EXCEPT !.lastUpdated = now])
    /\ UNCHANGED <<now, cares>>

\* A care action, applied to an alive pet, whose write fails.
CareWriteFails ==
    /\ mounted
    /\ CareGate(stage)
    /\ cares < MaxCare
    /\ cares' = cares + 1
    /\ \E c \in {"feed", "play", "nap", "clean"} :
        /\ last' = WriteFailed(c)
        /\ RenderWriteFails(stage, age,
                CASE c = "feed" -> feedPet(pet, now)
                  [] c = "play" -> playPet(pet, now)
                  [] c = "nap" -> napPet(pet, now)
                  [] OTHER -> cleanPet(pet, now))
    /\ UNCHANGED now

NextWriteFail ==
    \/ Next
    \/ TickWriteFails
    \/ CareWriteFails

SpecWriteFail == Init /\ [][NextWriteFail]_vars

----------------------------------------------------------------------------
(* Loading an arbitrary stored value at an arbitrary time *)

SnapStages == {"egg", "hatching", "alive", "dead"}

SnapAges == {0, 7, MAX_AGE}

\* fresh; after eight plays and two ticks; after 195 s away and six feeds
SnapAttrs == { <<FreshHunger, FreshHappiness, FreshEnergy, FreshCleanliness>>,
               <<1950, 9700, 0, 3980>>,
               <<10000, 150, 4490, 1710>> }

SnapPets == { [hunger |-> x[1], happiness |-> x[2], energy |-> x[3],
               cleanliness |-> x[4], lastUpdated |-> t] :
              x \in SnapAttrs, t \in LoadInstants }

\* what the persist effect writes
GoodStored == { JSONstringify(Payload(s, a, p)) :
                s \in SnapStages, a \in SnapAges, p \in SnapPets }

\* nothing, a text that does not parse, an object of another version or none,
\* a version-2 object with no pet
BadStored ==
    {Missing, Unparsable}
    \cup { [g EXCEPT !.version = v] : g \in GoodStored, v \in {1, 3} }
    \cup { [g EXCEPT !.keys = @ \ {"version"}, !.version = 0] : g \in GoodStored }
    \cup { [g EXCEPT !.keys = @ \ {"pet"}, !.pet = NoPet] : g \in GoodStored }

StoredValues == GoodStored \cup BadStored

\* Version-2 objects whose fields are out of range or of the wrong shape: an
\* attribute above 100 or below 0, a negative age, a stage that is no life
\* stage, and objects without the stage or the age key.
MalformedStored ==
    LET g == JSONstringify(Payload("egg", 0, freshPet(T0)))
    IN  { [g EXCEPT !.pet.hunger = 50000],
          [g EXCEPT !.pet.energy = -300],
          [g EXCEPT !.stage = "dead", !.pet.cleanliness = 10001],
          [g EXCEPT !.age = -3],
          [g EXCEPT !.stage = "alive", !.age = -3],
          [g EXCEPT !.stage = "zombie"],
          [g EXCEPT !.stage = "alive", !.pet.hunger = 50000],
          [g EXCEPT !.keys = @ \ {"stage"}, !.stage = ""],
          [g EXCEPT !.keys = @ \ {"age"}, !.age = 0] }

\* The page has never been open; the store holds any value, the clock any time.
InitLoad ==
    /\ storage \in StoredValues
    /\ now \in LoadInstants
    /\ mounted = FALSE
    /\ stage = "egg"
    /\ age = 0
    /\ pet = freshPet(now)
    /\ hatchTimer = FALSE
    /\ tickTimer = FALSE
    /\ cares = 0
    /\ last = Ev("none")

NextLoad ==
    \/ Open
    \/ Close

SpecLoad == InitLoad /\ [][NextLoad]_vars

----------------------------------------------------------------------------
(* Properties *)

CareEvents == {"feed", "play", "nap", "clean"}

FreshAttrs == <<FreshHunger, FreshHappiness, FreshEnergy, FreshCleanliness>>

\* C1. Clamp invariant: in every state reached by ticks and commands, each of
\* hunger, happiness, energy and cleanliness lies in [0, 100].
ClampInvariant ==
    /\ 0 <= pet.hunger /\ pet.hunger <= 10000
    /\ 0 <= pet.happiness /\ pet.happiness <= 10000
    /\ 0 <= pet.energy /\ pet.energy <= 10000
    /\ 0 <= pet.cleanliness /\ pet.cleanliness <= 10000

\* C1 witness: clean() one tick after hatching, 88.9 + 22 cut down to 100.
ClampWitness ==
    /\ mounted
    /\ stage = "alive"
    /\ age = 1
    /\ last.ev = "clean"
    /\ pet.cleanliness = 10000

\* C2 as stated. Stage progression: the stage changes only from egg by hatch()
\* to hatching, from hatching by the hatch timer to alive, from alive on
\* reaching age >= MAX_AGE to dead, and from dead by restart() to egg.
StageProgressionAsStated ==
    [][stage' # stage =>
        \/ stage = "egg" /\ last'.ev = "hatch" /\ stage' = "hatching"
        \/ stage = "hatching" /\ last'.ev = "hatchTimer" /\ stage' = "alive"
        \/ stage = "alive" /\ age' >= MAX_AGE /\ stage' = "dead"
        \/ stage = "dead" /\ last'.ev = "restart" /\ stage' = "egg"]_vars

\* C2 amended. Stage progression: as stated, and besides restart() changes the
\* stage from hatching and from alive to egg; nothing else changes the stage.
StageProgression ==
    [][stage' # stage =>
        \/ stage = "egg" /\ last'.ev = "hatch" /\ stage' = "hatching"
        \/ stage = "hatching" /\ last'.ev = "hatchTimer" /\ stage' = "alive"
        \/ stage = "alive" /\ age' >= MAX_AGE /\ stage' = "dead"
        \/ stage = "dead" /\ last'.ev = "restart" /\ stage' = "egg"
        \/ stage \in {"hatching", "alive"} /\ last'.ev = "restart" /\ stage' = "egg"]_vars

\* C2 witness: restart() called while alive has put the stage back to egg.
StageProgressionWitness ==
    /\ mounted
    /\ last.ev = "restart"
    /\ last.src = "alive"
    /\ stage = "egg"

\* C3. Gated actions: feed, play, nap and clean called in egg, hatching or dead
\* leave the attributes, lastUpdated, age and stage (and the stored snapshot
\* and the timers) as they were.
GatedActions ==
    [][(last'.ev \in CareEvents /\ stage # "alive") =>
        UNCHANGED <<stage, age, pet, storage, hatchTimer, tickTimer>>]_vars

\* C3 witness: play() was called on a dead pet.
GatedActionsWitness ==
    /\ mounted
    /\ last.ev = "play"
    /\ stage = "dead"
    /\ age = MAX_AGE

\* C4. Death timing: the tick of an alive pet of age MAX_AGE - 1 sets the age
\* to MAX_AGE, takes five seconds of decay off the attributes, and leaves the
\* stage dead with the tick interval cleared.
DeathTiming ==
    [][(last'.ev = "tick" /\ stage = "alive" /\ age = MAX_AGE - 1) =>
        /\ age' = MAX_AGE
        /\ pet'.hunger = Max2(0, pet.hunger - 125)
        /\ pet'.happiness = Max2(0, pet.happiness - 150)
        /\ pet'.energy = Max2(0, pet.energy - 90)
        /\ pet'.cleanliness = Max2(0, pet.cleanliness - 110)
        /\ pet'.lastUpdated = now
        /\ stage' = "dead"
        /\ storage'.stage = "dead"
        /\ ~tickTimer']_vars

\* C4 witness: the pet has just died of its twenty-fourth tick.
DeathTimingWitness ==
    /\ mounted
    /\ last.ev = "tick"
    /\ stage = "dead"
    /\ age = MAX_AGE
    /\ ~tickTimer

\* A valid saved snapshot: a version-2 object with its four keys, a life
\* stage, a natural age, attributes in range and a timestamp.
IsSnapshot(raw) ==
    /\ raw.kind = "object"
    /\ raw.keys = {"version", "stage", "age", "pet"}
    /\ raw.version = 2
    /\ raw.stage \in {"egg", "hatching", "alive", "dead"}
    /\ raw.age >= 0
    /\ \A i \in 1..4 : Attrs(raw.pet)[i] >= 0 /\ Attrs(raw.pet)[i] <= 10000
    /\ raw.pet.lastUpdated > 0

\* C5. Catch-up decay on resume: mounting on a valid alive snapshot saved at
\* T0 <= now restores decay(A0, floor((now - T0) / 1000)), lastUpdated = now
\* and the saved age.
CatchUpDecay ==
    [][(last'.ev = "open" /\ IsSnapshot(storage) /\ storage.stage = "alive"
            /\ now >= storage.pet.lastUpdated) =>
        LET secs == (now - storage.pet.lastUpdated) \div 1000
        IN  /\ pet'.hunger = Max2(0, storage.pet.hunger - 25 * secs)
            /\ pet'.happiness = Max2(0, storage.pet.happiness - 30 * secs)
            /\ pet'.energy = Max2(0, storage.pet.energy - 18 * secs)
            /\ pet'.cleanliness = Max2(0, storage.pet.cleanliness - 22 * secs)
            /\ pet'.lastUpdated = now
            /\ age' = storage.age]_vars

\* C5 witness: a fresh alive pet of age 7 restored 4.3 s after it was saved,
\* four seconds of decay taken off and the age kept.
CatchUpDecayWitness ==
    /\ mounted
    /\ last = [ev |-> "open", src |-> "saved", dt |-> 4300]
    /\ stage = "alive"
    /\ age = 7
    /\ Attrs(pet) = <<6900, 5880, 7928, 8912>>

\* C6 as stated. Negative elapsed time is clamped to zero: mounting on a valid
\* alive snapshot whose lastUpdated is later than now restores every attribute
\* at its saved value.
NegativeElapsedClamped ==
    [][(last'.ev = "open" /\ IsSnapshot(storage) /\ storage.stage = "alive"
            /\ now < storage.pet.lastUpdated) =>
        Attrs(pet') = Attrs(storage.pet)]_vars

\* C7. Round trip: closing the page and opening it at now = lastUpdated
\* gives back the stage, age and snapshot that were saved.
RoundTrip ==
    [][(last'.ev = "open" /\ now = pet.lastUpdated) =>
        (stage' = stage /\ age' = age /\ pet' = pet)]_vars

\* C7 witness: an alive pet that was ticked and cared for, restored with no
\* time elapsed.
RoundTripWitness ==
    /\ mounted
    /\ last = [ev |-> "open", src |-> "saved", dt |-> 0]
    /\ stage = "alive"
    /\ age > 0
    /\ cares > 0
    /\ Attrs(pet) # FreshAttrs

\* C8. Fresh start on bad data: mounting when the stored value is missing,
\* unparsable or not of version 2 gives stage egg, age 0 and the default
\* attributes, whatever else the stored value holds.
FreshStartOnBadData ==
    [][(last'.ev = "open"
            /\ (\/ storage.kind \in {"null", "garbage"}
                \/ "version" \notin storage.keys
                \/ storage.version # 2)) =>
        /\ mounted'
        /\ stage' = "egg"
        /\ age' = 0
        /\ Attrs(pet') = <<7000, 6000, 8000, 9000>>
        /\ pet'.lastUpdated = now]_vars

\* C8 witness: a stored object of another version was discarded.
FreshStartWitness ==
    /\ mounted
    /\ last.ev = "open"
    /\ last.src = "version"
    /\ stage = "egg"
    /\ age = 0

\* C9. Timer cancellation: the tick interval is active only in alive and the
\* hatch timeout pending only in hatching; from egg nothing but hatch() moves
\* the stage, the age (0) or the attributes (fresh), and from dead nothing
\* but restart() does.
TimerCancellation ==
    [][/\ tickTimer' => (mounted' /\ stage' = "alive")
       /\ hatchTimer' => (mounted' /\ stage' = "hatching")
       /\ (stage = "egg" /\ last'.ev # "hatch") =>
            (stage' = "egg" /\ age' = 0 /\ Attrs(pet') = FreshAttrs)
       /\ (stage = "dead" /\ last'.ev # "restart") =>
            (stage' = "dead" /\ age' = age /\ Attrs(pet') = Attrs(pet))]_vars

\* C9 witness: restart() was called while the hatch timeout was pending, and
\* the timeout is gone.
TimerCancellationWitness ==
    /\ mounted
    /\ last.ev = "restart"
    /\ last.src = "hatching"
    /\ stage = "egg"
    /\ ~hatchTimer
    /\ ~tickTimer

\* C10. Write-through persistence: after every event, the stored value is the
\* version-2 snapshot of the current stage, age and pet.
WriteThrough ==
    mounted =>
        storage = [kind |-> "object", keys |-> {"version", "stage", "age", "pet"},
                   version |-> 2, stage |-> stage, age |-> age, pet |-> pet]

\* C10 witness: a tick has been handled and the store holds its result.
WriteThroughWitness ==
    /\ mounted
    /\ last.ev = "tick"
    /\ age = 3
    /\ storage.age = 3
    /\ storage.pet = pet

\* C11. Restore of a non-alive pet: mounting on a valid snapshot whose stage
\* is egg, hatching or dead gives back the saved stage, age and attributes
\* whatever time has passed (or run backwards); only lastUpdated becomes now.
RestoreNonAlive ==
    [][(last'.ev = "open" /\ IsSnapshot(storage) /\ storage.stage # "alive") =>
        /\ stage' = storage.stage
        /\ age' = storage.age
        /\ Attrs(pet') = Attrs(storage.pet)
        /\ pet'.lastUpdated = now]_vars

\* C11 witness: a hatching pet of age 7 restored an hour after it was saved,
\* its attributes as they were.
RestoreNonAliveWitness ==
    /\ mounted
    /\ last = [ev |-> "open", src |-> "saved", dt |-> 3600000]
    /\ stage = "hatching"
    /\ age = 7
    /\ Attrs(pet) = <<1950, 9700, 0, 3980>>

\* C12. Hatch and restart reset the pet: hatch() in egg gives hatching, age 0
\* and the fresh attributes and changes nothing in the other stages; restart()
\* in any stage gives egg, age 0 and the fresh attributes; and from egg only
\* hatch() changes the stage.
HatchRestartReset ==
    [][/\ (last'.ev = "hatch" /\ stage = "egg") =>
            (stage' = "hatching" /\ age' = 0
                /\ pet' = [hunger |-> 7000, happiness |-> 6000, energy |-> 8000,
                           cleanliness |-> 9000, lastUpdated |-> now])
       /\ (last'.ev = "hatch" /\ stage # "egg") =>
            UNCHANGED <<stage, age, pet, storage, hatchTimer, tickTimer>>
       /\ last'.ev = "restart" =>
            (stage' = "egg" /\ age' = 0
                /\ pet' = [hunger |-> 7000, happiness |-> 6000, energy |-> 8000,
                           cleanliness |-> 9000, lastUpdated |-> now])
       /\ (stage = "egg" /\ stage' # "egg") =>
            (last'.ev = "hatch" /\ stage' = "hatching")]_vars

\* C12 witness: restart() called on a dead pet of age MAX_AGE has reset it.
HatchRestartWitness ==
    /\ mounted
    /\ last = [ev |-> "restart", src |-> "dead", dt |-> 0]
    /\ stage = "egg"
    /\ age = 0
    /\ Attrs(pet) = FreshAttrs
    /\ cares = 1

\* C13 as stated. Storage write failure does not break the simulation: after
\* a tick or a care action whose write failed, the component is still mounted
\* with the stage, age and attributes the event produced, and the tick
\* interval of an alive pet still runs; only the stored snapshot is stale.
WriteFailureTolerated ==
    [][last'.src = "writeFailed" =>
        /\ mounted'
        /\ stage' = "alive" => tickTimer']_vars

----------------------------------------------------------------------------
(* Loading any stored value, malformed version-2 objects included *)

InitLoadAny ==
    /\ storage \in StoredValues \cup MalformedStored
    /\ now \in LoadInstants
    /\ mounted = FALSE
    /\ stage = "egg"
    /\ age = 0
    /\ pet = freshPet(now)
    /\ hatchTimer = FALSE
    /\ tickTimer = FALSE
    /\ cares = 0
    /\ last = Ev("none")

SpecLoadAny == InitLoadAny /\ [][NextLoad]_vars

\* C14 as stated. Load always produces a valid state: whatever was stored,
\* the mounted state has a life stage, a non-negative age and every attribute
\* within [0, 100].
LoadAlwaysValid ==
    mounted =>
        /\ stage \in {"egg", "hatching", "alive", "dead"}
        /\ age >= 0
        /\ \A i \in 1..4 : Attrs(pet)[i] >= 0 /\ Attrs(pet)[i] <= 10000

\* C15. Care-action effects while alive: feed is hunger +15, cleanliness -5;
\* play is hunger -6, happiness +18, energy -10, cleanliness -6; nap is
\* hunger -5, happiness +4, energy +20; clean is happiness +3, cleanliness
\* +22; each result cut to [0, 100], the other attributes kept, lastUpdated
\* set to now, age and stage unchanged.
CareEffects ==
    [][LET Cut(v) == IF v < 0 THEN 0 ELSE IF v > 10000 THEN 10000 ELSE v
           Effect(dh, dp, de, dc) ==
               /\ pet'.hunger = Cut(pet.hunger + dh)
               /\ pet'.happiness = Cut(pet.happiness + dp)
               /\ pet'.energy = Cut(pet.energy + de)
               /\ pet'.cleanliness = Cut(pet.cleanliness + dc)
               /\ pet'.lastUpdated = now
               /\ age' = age
               /\ stage' = stage
       IN  stage = "alive" =>
               /\ last'.ev = "feed" => Effect(1500, 0, 0, -500)
               /\ last'.ev = "play" => Effect(-600, 1800, -1000, -600)
               /\ last'.ev = "nap" => Effect(-500, 400, 2000, 0)
               /\ last'.ev = "clean" => Effect(0, 300, 0, 2200)]_vars

\* C15 witness: feed() on a pet that was just restored after an hour away,
\* hunger 0 + 15 and cleanliness held at 0.
CareEffectsWitness ==
    /\ mounted
    /\ last.ev = "feed"
    /\ stage = "alive"
    /\ Attrs(pet) = <<1500, 0, 0, 0>>

\* C16. Ticks happen only while alive: a tick finds the stage alive, adds 1 to
\* the age, takes 1.25, 1.5, 0.9 and 1.1 off hunger, happiness, energy and
\* cleanliness (stopping at 0) and sets lastUpdated to now; in egg, hatching
\* and dead no tick occurs, the age does not grow and no attribute decays
\* (age and attributes stay, or are reset to 0 and the fresh values).
TicksOnlyAlive ==
    [][/\ last'.ev = "tick" =>
            /\ stage = "alive"
            /\ age' = age + 1
            /\ pet'.hunger = Max2(0, pet.hunger - 125)
            /\ pet'.happiness = Max2(0, pet.happiness - 150)
            /\ pet'.energy = Max2(0, pet.energy - 90)
            /\ pet'.cleanliness = Max2(0, pet.cleanliness - 110)
            /\ pet'.lastUpdated = now
       /\ stage # "alive" =>
            /\ last'.ev # "tick"
            /\ age' = age \/ age' = 0
            /\ Attrs(pet') = Attrs(pet) \/ Attrs(pet') = FreshAttrs]_vars

\* C16 witness: the fifth tick of a pet left alone since it hatched.
TicksOnlyAliveWitness ==
    /\ mounted
    /\ last.ev = "tick"
    /\ stage = "alive"
    /\ age = 5
    /\ Attrs(pet) = <<6375, 5250, 7550, 8450>>

\* C17. Decay monotonicity: for the current snapshot and elapsed times
\* 0 <= t1 <= t2, no attribute of decay(s, t2) exceeds that of decay(s, t1),
\* and an attribute that is 0 is 0 after any decay.
DecayMonotone ==
    \A t1, t2 \in {0, 1, 5, 3600} :
        t1 <= t2 =>
            LET s == Attrs(pet)
                d1 == Attrs(applyDecay(pet, t1))
                d2 == Attrs(applyDecay(pet, t2))
            IN  \A i \in 1..4 :
                    /\ d2[i] <= d1[i]
                    /\ s[i] = 0 => d2[i] = 0

\* C17 witness: a tick has decayed a pet whose hunger was already 0 while
\* another attribute was still falling.
DecayMonotoneWitness ==
    /\ mounted
    /\ last.ev = "tick"
    /\ stage = "alive"
    /\ pet.hunger = 0
    /\ pet.happiness > 0

\* C18. In every run from the fresh egg the age never exceeds MAX_AGE, a dead
\* pet has age MAX_AGE, and no tick or care action is applied to an alive pet
\* whose age has reached MAX_AGE.
AgeBounded ==
    /\ age <= MAX_AGE
    /\ stage = "dead" => age = MAX_AGE
    /\ ~(stage = "alive" /\ age >= MAX_AGE)

\* C18 witness: the pet died at age MAX_AGE and a care command was then
\* issued on the dead pet.
AgeBoundedWitness ==
    /\ mounted
    /\ stage = "dead"
    /\ age = MAX_AGE
    /\ last.ev = "feed"
    /\ ~tickTimer

\* C19. In every run from the fresh egg, whenever the stage is egg or hatching
\* the age is 0 and the attributes are the fresh values (70, 60, 80, 90); the
\* pet enters alive with age 0 and fresh attributes.
EggIsFresh ==
    /\ stage \in {"egg", "hatching"} => age = 0 /\ Attrs(pet) = FreshAttrs
    /\ [][/\ stage' \in {"egg", "hatching"} =>
                age' = 0 /\ Attrs(pet') = FreshAttrs
          /\ stage # "alive" /\ stage' = "alive" =>
                /\ stage = "hatching"
                /\ age' = 0
                /\ Attrs(pet') = FreshAttrs]_vars

\* C19 witness: the hatch timer has just made a fresh pet alive, at an instant
\* later than the first opening of the page.
EggIsFreshWitness ==
    /\ mounted
    /\ last.ev = "hatchTimer"
    /\ stage = "alive"
    /\ age = 0
    /\ Attrs(pet) = FreshAttrs
    /\ now > T0

-----------------------------------------------------------------------------
(* The page stays open and restart() is never called; timers fire fairly *)

NextLive ==
    \/ Feed
    \/ Play
    \/ Nap
    \/ Clean
    \/ Hatch
    \/ HatchTimerFire
    \/ Tick
    \/ Advance

\* A pending timeout or interval callback is eventually run by the event loop.
SpecLive ==
    /\ Init
    /\ [][NextLive]_vars
    /\ WF_vars(HatchTimerFire)
    /\ WF_vars(Tick)

\* C20. With fair timers and no restart(), a hatching pet eventually becomes
\* alive and an alive pet eventually becomes dead, whatever care actions are
\* interleaved; the age changes only by a tick adding one, from 0 at hatch(),
\* so dead is reached after exactly MAX_AGE ticks.
EventuallyDead ==
    /\ (stage = "hatching") ~> (stage = "alive")
    /\ (stage = "alive") ~> (stage = "dead")
    /\ [](stage = "dead" => age = MAX_AGE)
    /\ [](stage \in {"egg", "hatching"} => age = 0)
    /\ [][age' # age => last'.ev = "tick" /\ age' = age + 1]_vars

\* C20 witness: the pet has died on its MAX_AGE-th tick with a care action
\* interleaved on the way.
EventuallyDeadWitness ==
    /\ stage = "dead"
    /\ age = MAX_AGE
    /\ last.ev = "tick"
    /\ cares = 1
    /\ ~tickTimer

====
